---- MODULE Spec2Model ----
(***************************************************************************)
(* The authentication gate of the bootcamp directory backend: the token    *)
(* verifier (protect), the role authorizer (authorize), the auth           *)
(* controller (register, login, logout, token response) and the ownership  *)
(* checks of the course handlers.                                          *)
(***************************************************************************)
EXTENDS Integers, Sequences, FiniteSets, TLC

\* ------------------------------------------------------------- bounds
MaxUsers == 2
MaxTime == 2
MaxTokens == 2
JwtExpire == 1
MaxCourses == 1
MaxBootcamps == 1
JwtCookieExpires == 1
MaxHeaderLen == 4

\* ------------------------------------------------------------- values
Roles == {"user", "publisher", "admin"}

UserIds == 1..MaxUsers

JWT_SECRET == "secret"

UNAUTHORIZED == "Not authorized to access this resource."

\* new ErrorResponse(message, statusCode)
ErrorResponse(message, statusCode) ==
    [message |-> message, statusCode |-> statusCode]

\* next() called with no argument
NoError == [message |-> "", statusCode |-> 0]

\* JavaScript's undefined / null for a user record
NoUser == [_id |-> 0, role |-> "", email |-> "", password |-> ""]

\* the email and the password a user registers with (the body of register)
EmailOf(id) == <<"mail", id>>

PasswordOf(id) == <<"pw", id>>

\* bcrypt: the stored password is a digest of the plain text
Hash(plain) == <<"bcrypt", plain>>

\* ------------------------------------------------------------- tokens
\* jwt.sign({ id }, secret, { expiresIn }) at time t
Sign(id, t, secret) ==
    [wellformed |-> TRUE, id |-> id, iat |-> t, exp |-> t + JwtExpire,
     key |-> secret]

\* a string that is no JWT at all ('InvalidToken')
Garbage ==
    [wellformed |-> FALSE, id |-> 0, iat |-> 0, exp |-> 0, key |-> ""]

\* jwt.verify(token, secret) at time t: does it return (TRUE) or throw
VerifyOk(token, secret, t) ==
    /\ token.wellformed
    /\ token.key = secret
    /\ t < token.exp

\* the payload jwt.verify returns
Decode(token) == [id |-> token.id, iat |-> token.iat, exp |-> token.exp]

\* ------------------------------------------------------------- headers
\* An Authorization header value is a string; it is modelled as a sequence
\* of atoms: the word Bearer, one other letter, one space, or a whole token.
Atom(ch, tok) == [ch |-> ch, tok |-> tok]

Bearer == Atom("Bearer", Garbage)

Space == Atom(" ", Garbage)

Letter == Atom("x", Garbage)

Tok(t) == Atom("tok", t)

\* String.prototype.startsWith('Bearer')
StartsWithBearer(s) == Len(s) >= 1 /\ s[1] = Bearer

\* String.prototype.split(' '): the pieces between the spaces
RECURSIVE Split(_)
Split(s) ==
    IF \A i \in 1..Len(s) : s[i] # Space
    THEN <<s>>
    ELSE LET k == CHOOSE i \in 1..Len(s) :
                      s[i] = Space /\ \A j \in 1..(i - 1) : s[j] # Space
         IN <<SubSeq(s, 1, k - 1)>> \o Split(SubSeq(s, k + 1, Len(s)))

\* a piece of a header read as a token string: only a piece that is one
\* whole token is a JWT, anything else is a malformed one
AsToken(piece) ==
    IF Len(piece) = 1 /\ piece[1].ch = "tok" THEN piece[1].tok ELSE Garbage

\* the token protect extracts; <<>> stands for undefined and for ''
ExtractToken(headers) ==
    IF /\ "authorization" \in DOMAIN headers
       /\ headers.authorization # <<>>
       /\ StartsWithBearer(headers.authorization)
    THEN LET pieces == Split(headers.authorization)
         IN IF Len(pieces) >= 2 THEN pieces[2] ELSE <<>>
    ELSE <<>>

\* ------------------------------------------------------------- state
VARIABLES
    users,      \* user storage: _id -> user record, for the stored users
    nextId,     \* the _id the next created user gets
    now,        \* the clock, in token lifetimes' units
    issued,     \* the tokens the server has issued so far
    preLogout,  \* the tokens issued before some logout
    bootcamps,  \* bootcamp storage: _id -> bootcamp record
    courses,    \* course storage: _id -> course record
    nextCourse, \* the _id the next created course gets
    req         \* the request being served, with its response

vars ==
    <<users, nextId, now, issued, preLogout, bootcamps, courses, nextCourse,
      req>>

\* res.cookie(name, value, options)
Cookie(name, value, expires, httpOnly, secure) ==
    [name |-> name, value |-> value, expires |-> expires,
     httpOnly |-> httpOnly, secure |-> secure]

NoCookie == Cookie("", <<>>, 0, FALSE, FALSE)

\* the response: status, cookie and JSON body (token: <<>> when absent)
Response(statusCode, cookie, token, data) ==
    [statusCode |-> statusCode, cookie |-> cookie, token |-> token,
     data |-> data]

NoResponse == Response(0, NoCookie, <<>>, <<>>)

NoBody ==
    [email |-> <<>>, password |-> <<>>, role |-> "", title |-> "",
     bootcamp |-> 0, user |-> 0]

\* a request as it arrives
Request(route, headers, body, params, roles, user, pc) ==
    [route |-> route, headers |-> headers, body |-> body, params |-> params,
     roles |-> roles, user |-> user, pc |-> pc, nexts |-> <<>>,
     thrown |-> "", lookup |-> "none", res |-> NoResponse]

Idle == Request("idle", <<>>, NoBody, 0, {}, NoUser, "done")

CourseRoutes == {"createCourse", "updateCourse", "deleteCourse"}

\* the middlewares a route runs before its handler
Chain(route) ==
    CASE route = "me" -> <<"protect", "handler">>
      [] route = "gated" -> <<"protect", "authorize", "handler">>
      [] route = "open" -> <<"authorize", "handler">>
      [] OTHER -> <<"handler">>

\* the stage that follows stage pc in the route's chain
After(route, pc) ==
    LET chain == Chain(route)
        k == CHOOSE i \in 1..Len(chain) : chain[i] = pc
    IN chain[k + 1]

\* next(err): with an error the request goes to the error handler, with
\* none to the next stage of the chain
CallNext(r, err) ==
    [r EXCEPT !.nexts = Append(@, err),
              !.pc = IF err = NoError THEN After(r.route, r.pc) ELSE "error"]

\* an exception leaving a synchronous middleware
Throw(r, name) == [r EXCEPT !.thrown = name, !.pc = "error"]

\* User.findById(id)
findById(id) == IF id \in DOMAIN users THEN users[id] ELSE NoUser

\* User.findOne({ email })
findOne(email) ==
    IF \E id \in DOMAIN users : users[id].email = email
    THEN users[CHOOSE id \in DOMAIN users : users[id].email = email]
    ELSE NoUser

\* user.isPasswordCorrect(password)
isPasswordCorrect(user, password) == Hash(password) = user.password

\* user.getSignedToken()
getSignedToken(user) == Sign(user._id, now, JWT_SECRET)

\* ------------------------------------------------------------- the gate
\* protect without its try/catch: the exception of jwt.verify or of the
\* lookup leaves the handler and reaches the error handler as it is
protectNoCatch(r, storage) ==
    LET token == ExtractToken(r.headers)
    IN IF token = <<>>
       THEN CallNext(r, ErrorResponse(UNAUTHORIZED, 401))
       ELSE IF ~VerifyOk(AsToken(token), JWT_SECRET, now)
       THEN CallNext(r, ErrorResponse("jwt malformed", 500))
       ELSE IF storage = "throws"
       THEN CallNext([r EXCEPT !.lookup = "threw"],
                     ErrorResponse("storage failure", 500))
       ELSE LET user == findById(Decode(AsToken(token)).id)
                looked == [r EXCEPT !.lookup = "answered"]
            IN IF user = NoUser
               THEN CallNext(looked,
                        ErrorResponse(
                          "Token is not associated with a user anymore.", 401))
               ELSE CallNext([looked EXCEPT !.user = user], NoError)

\* protect without the check that the lookup found a user
protectNoUserCheck(r, storage) ==
    LET token == ExtractToken(r.headers)
    IN IF token = <<>>
       THEN CallNext(r, ErrorResponse(UNAUTHORIZED, 401))
       ELSE IF ~VerifyOk(AsToken(token), JWT_SECRET, now)
       THEN CallNext(r, ErrorResponse(UNAUTHORIZED, 401))
       ELSE IF storage = "throws"
       THEN CallNext([r EXCEPT !.lookup = "threw"],
                     ErrorResponse(UNAUTHORIZED, 401))
       ELSE LET user == findById(Decode(AsToken(token)).id)
            IN CallNext([r EXCEPT !.lookup = "answered", !.user = user],
                        NoError)

\* protect looking the user up under the wrong field of the payload
protectWrongSubject(r, storage) ==
    LET token == ExtractToken(r.headers)
    IN IF token = <<>>
       THEN CallNext(r, ErrorResponse(UNAUTHORIZED, 401))
       ELSE IF ~VerifyOk(AsToken(token), JWT_SECRET, now)
       THEN CallNext(r, ErrorResponse(UNAUTHORIZED, 401))
       ELSE IF storage = "throws"
       THEN CallNext([r EXCEPT !.lookup = "threw"],
                     ErrorResponse(UNAUTHORIZED, 401))
       ELSE LET user == findById(Decode(AsToken(token)).exp)
                looked == [r EXCEPT !.lookup = "answered"]
            IN IF user = NoUser
               THEN CallNext(looked,
                        ErrorResponse(
                          "Token is not associated with a user anymore.", 401))
               ELSE CallNext([looked EXCEPT !.user = user], NoError)

\* protect: storage is "answers" or "throws" (the lookup's infrastructure)
protect(r, storage) ==
    LET token == ExtractToken(r.headers)
    IN IF token = <<>>
       THEN CallNext(r, ErrorResponse(UNAUTHORIZED, 401))
       ELSE IF ~VerifyOk(AsToken(token), JWT_SECRET, now)
       THEN CallNext(r, ErrorResponse(UNAUTHORIZED, 401))
       ELSE IF storage = "throws"
       THEN CallNext([r EXCEPT !.lookup = "threw"],
                     ErrorResponse(UNAUTHORIZED, 401))
       ELSE LET user == findById(Decode(AsToken(token)).id)
                looked == [r EXCEPT !.lookup = "answered"]
            IN IF user = NoUser
               THEN CallNext(looked,
                        ErrorResponse(
                          "Token is not associated with a user anymore.", 401))
               ELSE CallNext([looked EXCEPT !.user = user], NoError)

\* authorize with the membership test inverted
authorizeInverted(roles, r) ==
    IF r.user = NoUser
    THEN Throw(r, "TypeError")
    ELSE IF r.user.role \in roles
    THEN CallNext(r,
             ErrorResponse(
               "Certain permission is not met to access this resource.", 403))
    ELSE CallNext(r, NoError)

\* authorize guarding the role test with the presence of an identity
authorizeFailOpen(roles, r) ==
    IF r.user # NoUser /\ r.user.role \notin roles
    THEN CallNext(r,
             ErrorResponse(
               "Certain permission is not met to access this resource.", 403))
    ELSE CallNext(r, NoError)

\* authorize(...roles)
authorize(roles, r) ==
    IF r.user = NoUser
    THEN Throw(r, "TypeError")
    ELSE IF r.user.role \notin roles
    THEN CallNext(r,
             ErrorResponse(
               "Certain permission is not met to access this resource.", 403))
    ELSE CallNext(r, NoError)

\* ------------------------------------------------------------- auth controller
NODE_ENV == "development"

\* sendTokenResponse(user, statusCode, res)
sendTokenResponse(user, statusCode, r) ==
    LET token == getSignedToken(user)
        option == Cookie("token", <<token>>, now + JwtCookieExpires, TRUE,
                         NODE_ENV = "Production")
    IN [r EXCEPT !.res = Response(statusCode, option, <<token>>, <<>>),
                 !.pc = "done"]

\* authLogin without the password comparison
authLoginNoPasswordCheck(r) ==
    IF r.body.email = <<>> \/ r.body.password = <<>>
    THEN CallNext(r, ErrorResponse("Please enter username and password.", 400))
    ELSE LET user == findOne(r.body.email)
         IN IF user = NoUser
            THEN CallNext(r, ErrorResponse("Bad credentials.", 401))
            ELSE sendTokenResponse(user, 200, r)

\* authLogin
authLogin(r) ==
    IF r.body.email = <<>> \/ r.body.password = <<>>
    THEN CallNext(r, ErrorResponse("Please enter username and password.", 400))
    ELSE LET user == findOne(r.body.email)
         IN IF user = NoUser
            THEN CallNext(r, ErrorResponse("Bad credentials.", 401))
            ELSE IF ~isPasswordCorrect(user, r.body.password)
            THEN CallNext(r, ErrorResponse("Bad credentials.", 401))
            ELSE sendTokenResponse(user, 200, r)

\* authLogout setting a cookie that expires after now, not before
authLogoutLiveCookie(r) ==
    [r EXCEPT !.res = Response(204, Cookie("token", <<>>, now + 1, TRUE, FALSE),
                               <<>>, <<>>),
              !.pc = "done"]

\* authLogout
authLogout(r) ==
    [r EXCEPT !.res = Response(204, Cookie("token", <<>>, now - 1, TRUE, FALSE),
                               <<>>, <<>>),
              !.pc = "done"]

\* User.create({ name, email, password, role }): the stored record
NewUser(id, body) ==
    [_id |-> id, role |-> body.role, email |-> body.email,
     password |-> Hash(body.password)]

\* the tokens a response hands out
TokensIn(r) == {r.res.token[i] : i \in 1..Len(r.res.token)}

\* ------------------------------------------------------------- actions
\* no request is being served
Ready == req = Idle

\* the request has been answered, or has reached its handler: it ends, and
\* what was attached to it goes with it
Complete ==
    /\ req # Idle
    /\ req.pc \in {"done", "error", "handler"}
    /\ req.route \notin CourseRoutes \/ req.pc # "handler"
    /\ req' = Idle
    /\ UNCHANGED <<users, nextId, now, issued, preLogout, bootcamps, courses,
                   nextCourse>>

\* the tokens a client can put in a request: the ones it was given, one it
\* signed itself with another key, and a string that is no token
Presentable == issued \cup {Garbage, Sign(1, now, "other")}

\* no Authorization header, 'Bearer <token>', or another scheme's '<x> <token>'
GateHeaders ==
    {<<>>} \cup
    {[authorization |-> <<Bearer, Space, Tok(t)>>] : t \in Presentable} \cup
    {[authorization |-> <<Letter, Space, Tok(t)>>] : t \in issued}

\* the allowed roles of the role-gated routes
RouteRoles == {{"publisher", "admin"}, {"admin"}}

\* a request arrives at a route behind the gate
Receive(route, headers, roles) ==
    /\ Ready
    /\ req' = Request(route, headers, NoBody, 0, roles, NoUser, Chain(route)[1])
    /\ UNCHANGED <<users, nextId, now, issued, preLogout, bootcamps, courses,
                   nextCourse>>

Protect(storage) ==
    /\ req.pc = "protect"
    /\ req' = protect(req, storage)
    /\ UNCHANGED <<users, nextId, now, issued, preLogout, bootcamps, courses,
                   nextCourse>>

Authorize ==
    /\ req.pc = "authorize"
    /\ req' = authorize(req.roles, req)
    /\ UNCHANGED <<users, nextId, now, issued, preLogout, bootcamps, courses,
                   nextCourse>>

\* POST /api/v1/auth/register
AuthRegister(role) ==
    /\ Ready
    /\ nextId <= MaxUsers
    /\ LET body == [NoBody EXCEPT !.email = EmailOf(nextId),
                                  !.password = PasswordOf(nextId),
                                  !.role = role]
           user == NewUser(nextId, body)
           r == sendTokenResponse(user, 200,
                    Request("register", <<>>, body, 0, {}, NoUser, "handler"))
       IN /\ TokensIn(r) \subseteq issued \/ Cardinality(issued) < MaxTokens
          /\ users' = [id \in DOMAIN users \cup {nextId} |->
                          IF id = nextId THEN user ELSE users[id]]
          /\ nextId' = nextId + 1
          /\ req' = r
          /\ issued' = issued \cup TokensIn(r)
    /\ UNCHANGED <<now, preLogout, bootcamps, courses, nextCourse>>

\* POST /api/v1/auth/login
AuthLogin(email, password) ==
    /\ Ready
    /\ LET body == [NoBody EXCEPT !.email = email, !.password = password]
           r == authLogin(Request("login", <<>>, body, 0, {}, NoUser, "handler"))
       IN /\ TokensIn(r) \subseteq issued \/ Cardinality(issued) < MaxTokens
          /\ req' = r
          /\ issued' = issued \cup TokensIn(r)
    /\ UNCHANGED <<users, nextId, now, preLogout, bootcamps, courses, nextCourse>>

\* POST /api/v1/auth/logout
AuthLogout ==
    /\ Ready
    /\ req' = authLogout(Request("logout", <<>>, NoBody, 0, {}, NoUser, "handler"))
    /\ preLogout' = issued
    /\ UNCHANGED <<users, nextId, now, issued, bootcamps, courses, nextCourse>>

\* time passes
Tick ==
    /\ Ready
    /\ now < MaxTime
    /\ now' = now + 1
    /\ UNCHANGED <<users, nextId, issued, preLogout, bootcamps, courses,
                   nextCourse, req>>

\* a user is deleted from storage
RemoveUser(id) ==
    /\ Ready
    /\ id \in DOMAIN users
    /\ users' = [i \in DOMAIN users \ {id} |-> users[i]]
    /\ UNCHANGED <<nextId, now, issued, preLogout, bootcamps, courses,
                   nextCourse, req>>

\* ------------------------------------------------------------- courses
\* Course.create(body): the stored record
NewCourse(id, body) ==
    [_id |-> id, user |-> body.user, bootcamp |-> body.bootcamp,
     title |-> body.title]

\* res.status(statusCode).json({ success: true, data })
Json(r, statusCode, data) ==
    [r EXCEPT !.res = Response(statusCode, NoCookie, <<>>, data),
              !.pc = "done"]

\* what a handler leaves: the request and the course storage
Outcome(r, store) == [req |-> r, courses |-> store]

\* createCourse; id is the _id storage gives a new course
createCourse(r, id) ==
    LET body == [r.body EXCEPT !.bootcamp = r.params, !.user = r.user._id]
        q == [r EXCEPT !.body = body]
    IN IF r.params \notin DOMAIN bootcamps
       THEN Outcome(CallNext(q, ErrorResponse("Bootcamp is not found.", 404)),
                    courses)
       ELSE IF bootcamps[r.params].user # r.user._id /\ r.user.role # "admin"
       THEN Outcome(CallNext(q,
                        ErrorResponse("Permission denied to add a course.", 403)),
                    courses)
       ELSE LET course == NewCourse(id, body)
            IN Outcome(Json(q, 201, <<course>>),
                       [c \in DOMAIN courses \cup {id} |->
                           IF c = id THEN course ELSE courses[c]])

\* updateCourse with || for && in the ownership check
updateCourseOr(r) ==
    IF r.params \notin DOMAIN courses
    THEN Outcome(CallNext(r, ErrorResponse("Course is not found.", 404)), courses)
    ELSE IF courses[r.params].user # r.user._id \/ r.user.role # "admin"
    THEN Outcome(CallNext(r, ErrorResponse("Permission denied to update.", 403)),
                 courses)
    ELSE LET updated == [courses[r.params] EXCEPT !.title = r.body.title]
         IN Outcome(Json(r, 200, <<updated>>),
                    [courses EXCEPT ![r.params] = updated])

\* updateCourse
updateCourse(r) ==
    IF r.params \notin DOMAIN courses
    THEN Outcome(CallNext(r, ErrorResponse("Course is not found.", 404)), courses)
    ELSE IF courses[r.params].user # r.user._id /\ r.user.role # "admin"
    THEN Outcome(CallNext(r, ErrorResponse("Permission denied to update.", 403)),
                 courses)
    ELSE LET updated == [courses[r.params] EXCEPT !.title = r.body.title]
         IN Outcome(Json(r, 200, <<updated>>),
                    [courses EXCEPT ![r.params] = updated])

\* deleteCourse
deleteCourse(r) ==
    IF r.params \notin DOMAIN courses
    THEN Outcome(CallNext(r, ErrorResponse("Course is not found.", 404)), courses)
    ELSE IF courses[r.params].user # r.user._id /\ r.user.role # "admin"
    THEN Outcome(CallNext(r, ErrorResponse("Permission denied to delete.", 403)),
                 courses)
    ELSE Outcome(Json(r, 200, <<>>),
                 [c \in DOMAIN courses \ {r.params} |-> courses[c]])

\* the identities the gate attaches: stored user records
Identities ==
    {NewUser(id, [NoBody EXCEPT !.email = EmailOf(id),
                                !.password = PasswordOf(id), !.role = role]) :
        id \in UserIds, role \in Roles}

\* the title in the body of a request
TitleFor(route) == IF route = "createCourse" THEN "first" ELSE "second"

\* a request reaches a course handler with the identity the gate attached
ReceiveCourse(route, user, params) ==
    /\ Ready
    /\ req' = Request(route, <<>>, [NoBody EXCEPT !.title = TitleFor(route)],
                      params, {}, user, "handler")
    /\ UNCHANGED <<users, nextId, now, issued, preLogout, bootcamps, courses,
                   nextCourse>>

CreateCourse ==
    /\ req.pc = "handler" /\ req.route = "createCourse"
    /\ LET out == createCourse(req, nextCourse)
       IN /\ out.courses = courses \/ nextCourse <= MaxCourses
          /\ req' = out.req
          /\ courses' = out.courses
          /\ nextCourse' = IF out.courses = courses THEN nextCourse
                           ELSE nextCourse + 1
    /\ UNCHANGED <<users, nextId, now, issued, preLogout, bootcamps>>

UpdateCourse ==
    /\ req.pc = "handler" /\ req.route = "updateCourse"
    /\ req' = updateCourse(req).req
    /\ courses' = updateCourse(req).courses
    /\ UNCHANGED <<users, nextId, now, issued, preLogout, bootcamps, nextCourse>>

DeleteCourse ==
    /\ req.pc = "handler" /\ req.route = "deleteCourse"
    /\ req' = deleteCourse(req).req
    /\ courses' = deleteCourse(req).courses
    /\ UNCHANGED <<users, nextId, now, issued, preLogout, bootcamps, nextCourse>>

Emails == {<<>>} \cup {EmailOf(id) : id \in UserIds}

Passwords == {<<>>} \cup {PasswordOf(id) : id \in UserIds}

Init ==
    /\ users = <<>>
    /\ nextId = 1
    /\ now = 0
    /\ issued = {}
    /\ preLogout = {}
    /\ bootcamps = <<>>
    /\ courses = <<>>
    /\ nextCourse = 1
    /\ req = Idle

Next ==
    \/ \E route \in {"me", "open"}, headers \in GateHeaders :
           Receive(route, headers, {})
    \/ \E headers \in GateHeaders, roles \in RouteRoles :
           Receive("gated", headers, roles)
    \/ \E storage \in {"answers", "throws"} : Protect(storage)
    \/ Authorize
    \/ \E role \in Roles : AuthRegister(role)
    \/ \E email \in Emails, password \in Passwords : AuthLogin(email, password)
    \/ AuthLogout
    \/ Tick
    \/ \E id \in UserIds : RemoveUser(id)
    \/ Complete

Spec == Init /\ [][Next]_vars

\* the course handlers, behind the gate
InitCourses ==
    /\ users = <<>>
    /\ nextId = 1
    /\ now = 0
    /\ issued = {}
    /\ preLogout = {}
    /\ \E B \in SUBSET (1..MaxBootcamps) :
           bootcamps \in [B -> [user : UserIds]]
    /\ courses = <<>>
    /\ nextCourse = 1
    /\ req = Idle

NextCourses ==
    \/ \E route \in CourseRoutes, user \in Identities,
          params \in 1..(MaxCourses + 1) :
           ReceiveCourse(route, user, params)
    \/ CreateCourse
    \/ UpdateCourse
    \/ DeleteCourse
    \/ Complete

SpecCourses == InitCourses /\ [][NextCourses]_vars

\* authorize alone, on every allowed-role set and every identity
InitAuthorize ==
    /\ users = <<>>
    /\ nextId = 1
    /\ now = 0
    /\ issued = {}
    /\ preLogout = {}
    /\ bootcamps = <<>>
    /\ courses = <<>>
    /\ nextCourse = 1
    /\ \E roles \in SUBSET Roles :
           \/ \E user \in Identities :
                  req = [Request("gated", <<>>, NoBody, 0, roles, user,
                                 "authorize")
                            EXCEPT !.nexts = <<NoError>>, !.lookup = "answered"]
           \/ req = Request("open", <<>>, NoBody, 0, roles, NoUser, "authorize")

NextAuthorize == Authorize \/ Complete

SpecAuthorize == InitAuthorize /\ [][NextAuthorize]_vars

\* the strings of at most n atoms over a set of atoms
RECURSIVE Strings(_, _)
Strings(atoms, n) ==
    IF n = 0 THEN {<<>>}
    ELSE LET shorter == Strings(atoms, n - 1)
         IN shorter \cup {Append(s, a) : s \in shorter, a \in atoms}

\* the token of a user who has registered and not logged out
HeldToken == Sign(1, 0, JWT_SECRET)

\* the Authorization header values a client holding that token can send
HeaderValues == Strings({Bearer, Space, Letter, Tok(HeldToken)}, MaxHeaderLen)

\* protect on every Authorization header value, after one user registered
InitHeader ==
    /\ users = <<NewUser(1, [NoBody EXCEPT !.email = EmailOf(1),
                                           !.password = PasswordOf(1),
                                           !.role = "user"])>>
    /\ nextId = 2
    /\ now = 0
    /\ issued = {HeldToken}
    /\ preLogout = {}
    /\ bootcamps = <<>>
    /\ courses = <<>>
    /\ nextCourse = 1
    /\ \E h \in HeaderValues :
           req = Request("me", [authorization |-> h], NoBody, 0, {}, NoUser,
                         "protect")

\* the lookup answers: what is asked here is which headers yield a token
NextHeader ==
    \/ Protect("answers")
    \/ Complete

SpecHeader == InitHeader /\ [][NextHeader]_vars

\* ------------------------------------------------------------- properties
GateRoutes == {"me", "gated"}

\* the request carries a header of the form 'Bearer <token>'
HasBearerToken(r) ==
    /\ "authorization" \in DOMAIN r.headers
    /\ LET h == r.headers.authorization
       IN Len(h) = 3 /\ h[1] = Bearer /\ h[2] = Space /\ h[3].ch = "tok"

BearerTokenOf(r) == r.headers.authorization[3].tok

\* this step is protect serving the request
ProtectStep == req.pc = "protect" /\ req' # req

\* this step is authorize serving the request
AuthorizeStep == req.pc = "authorize" /\ req' # req

Unauthorized == ErrorResponse(UNAUTHORIZED, 401)

\* C1: a request to protect with no Authorization header, or with a bearer
\* token that fails verification (bad signature, malformed, expired), gets
\* next called once with the 401 error of the missing-header case, gets no
\* req.user, and no exception leaves protect.
C1_RejectsMissingOrBadToken ==
    [][(/\ ProtectStep
        /\ \/ "authorization" \notin DOMAIN req.headers
           \/ /\ HasBearerToken(req)
              /\ ~VerifyOk(BearerTokenOf(req), JWT_SECRET, now))
       => /\ req'.nexts = <<Unauthorized>>
          /\ req'.user = NoUser
          /\ req'.thrown = ""
          /\ req'.pc = "error"]_vars

\* C1 witness: an issued token has been rejected before any lookup, which
\* only its expiry can cause
C1_Witness ==
    /\ req.route \in GateRoutes
    /\ req.pc = "error"
    /\ HasBearerToken(req)
    /\ BearerTokenOf(req) \in issued
    /\ req.lookup = "none"
    /\ req.nexts = <<Unauthorized>>

\* C2: a request whose token verifies but whose subject has no user record
\* when the lookup answers gets next called with a 401 error and no req.user,
\* and does not go on to the next stage.
C2_RejectsDeletedUser ==
    [][(/\ ProtectStep
        /\ HasBearerToken(req)
        /\ VerifyOk(BearerTokenOf(req), JWT_SECRET, now)
        /\ BearerTokenOf(req).id \notin DOMAIN users
        /\ req'.lookup = "answered")
       => /\ Len(req'.nexts) = 1
          /\ req'.nexts[1].statusCode = 401
          /\ req'.user = NoUser
          /\ req'.pc = "error"]_vars

C2_Witness ==
    /\ req.route \in GateRoutes
    /\ req.pc = "error"
    /\ HasBearerToken(req)
    /\ BearerTokenOf(req) \in issued
    /\ req.lookup = "answered"
    /\ req.user = NoUser
    /\ req.nexts[1].statusCode = 401

\* C3: a request whose token verifies and whose subject is stored gets the
\* record stored under the token's subject id as req.user, and next is called
\* once, with no error.
C3_AttachesTokenSubject ==
    [][(/\ ProtectStep
        /\ HasBearerToken(req)
        /\ VerifyOk(BearerTokenOf(req), JWT_SECRET, now)
        /\ BearerTokenOf(req).id \in DOMAIN users
        /\ req'.lookup = "answered")
       => /\ req'.user = users[BearerTokenOf(req).id]
          /\ req'.user._id = BearerTokenOf(req).id
          /\ req'.nexts = <<NoError>>
          /\ req'.pc = After(req.route, "protect")]_vars

C3_Witness ==
    /\ req.route = "me"
    /\ req.pc = "handler"
    /\ HasBearerToken(req)
    /\ BearerTokenOf(req) \in issued
    /\ req.user._id = BearerTokenOf(req).id
    /\ req.nexts = <<NoError>>

\* C4: authorize(R) on a request with an identity calls next with a 403 error
\* when the identity's role is not in R, and with no error otherwise; it
\* changes nothing else of the request.
C4_AuthorizeByRole ==
    [][(AuthorizeStep /\ req.user # NoUser)
       => /\ req.user.role \notin req.roles =>
                 /\ Len(req'.nexts) = Len(req.nexts) + 1
                 /\ req'.nexts[Len(req'.nexts)].statusCode = 403
                 /\ req'.pc = "error"
          /\ req.user.role \in req.roles =>
                 /\ req'.nexts = Append(req.nexts, NoError)
                 /\ req'.pc = "handler"
          /\ [req' EXCEPT !.nexts = req.nexts, !.pc = req.pc] = req]_vars

C4_Witness ==
    /\ req.route = "gated"
    /\ req.user # NoUser
    /\ req.user.role \notin req.roles
    /\ req.pc = "error"
    /\ Len(req.nexts) = 2
    /\ req.nexts[2].statusCode = 403

\* C5: behind authorize(R) the handler is reached only with an identity that
\* protect attached and whose role is in R; authorize on a request with no
\* identity never lets it through.
C5_HandlerOnlyWithIdentityInRole ==
    /\ (req.route \in {"gated", "open"} /\ req.pc = "handler") =>
           /\ req.user # NoUser
           /\ req.user.role \in req.roles
           /\ req.route = "gated"
           /\ req.lookup = "answered"
           /\ req.nexts = <<NoError, NoError>>
    /\ (req.route \in {"gated", "open"} /\ req.user = NoUser) =>
           req.pc # "handler"

C5_Witness ==
    /\ req.route = "gated"
    /\ req.pc = "handler"
    /\ req.user # NoUser
    /\ req.roles # Roles

\* C6: every rejection by protect has the status and the message of the
\* rejection of a request with no token, whatever its cause.
C6_UniformRejection ==
    (/\ req.route \in GateRoutes
     /\ Len(req.nexts) >= 1
     /\ req.nexts[1] # NoError)
    => req.nexts[1] =
           protect(Request(req.route, <<>>, NoBody, 0, req.roles, NoUser,
                           "protect"), "answers").nexts[1]

\* C7: a lookup that fails with an infrastructure error ends the request in a
\* 5xx error, not in 401.
C7_StorageFailureIs5xx ==
    (req.route \in GateRoutes /\ req.lookup = "threw")
    => /\ Len(req.nexts) = 1
       /\ req.nexts[1].statusCode >= 500
       /\ req.nexts[1].statusCode # 401

\* this step is a course handler serving the request
CourseStep == req.pc = "handler" /\ req.route \in CourseRoutes /\ req' # req

\* the resource the ownership check of the request is about exists
TargetExists(r) ==
    IF r.route = "createCourse" THEN r.params \in DOMAIN bootcamps
    ELSE r.params \in DOMAIN courses

\* the owner of that resource
TargetOwner(r) ==
    IF r.route = "createCourse" THEN bootcamps[r.params].user
    ELSE courses[r.params].user

Rejected403(r) ==
    \E i \in 1..Len(r.nexts) : r.nexts[i].statusCode = 403

\* C8: in createCourse, updateCourse and deleteCourse on an existing target,
\* an admin is never rejected with 403, and a requester who is neither the
\* owner nor an admin gets a 403 error and the courses stay as they were.
C8_OwnershipWithAdminOverride ==
    [][(CourseStep /\ TargetExists(req))
       => /\ req.user.role = "admin" => ~Rejected403(req')
          /\ (req.user.role # "admin" /\ TargetOwner(req) # req.user._id) =>
                 /\ Len(req'.nexts) = 1
                 /\ req'.nexts[1].statusCode = 403
                 /\ req'.res = NoResponse
                 /\ courses' = courses]_vars

C8_Witness ==
    /\ req.route = "deleteCourse"
    /\ req.params \in DOMAIN courses
    /\ courses[req.params].user # req.user._id
    /\ req.user.role = "publisher"
    /\ req.pc = "error"
    /\ req.nexts[1].statusCode = 403

\* this step is authLogout serving a request
LogoutStep == req = Idle /\ req'.route = "logout"

\* C9: authLogout changes no server-side state, answers 204 with an empty,
\* already expired 'token' cookie, and a token issued before a logout is
\* still accepted by protect while it is unexpired and its user is stored.
C9_LogoutRevokesNothing ==
    [][/\ LogoutStep =>
              /\ UNCHANGED <<users, nextId, bootcamps, courses, nextCourse>>
              /\ req'.res.statusCode = 204
              /\ req'.res.cookie.name = "token"
              /\ req'.res.cookie.value = <<>>
              /\ req'.res.cookie.expires < now
              /\ req'.nexts = <<>>
       /\ (/\ ProtectStep
           /\ HasBearerToken(req)
           /\ BearerTokenOf(req) \in preLogout
           /\ now < BearerTokenOf(req).exp
           /\ BearerTokenOf(req).id \in DOMAIN users
           /\ req'.lookup = "answered")
          => /\ req'.user = users[BearerTokenOf(req).id]
             /\ req'.nexts = <<NoError>>]_vars

C9_Witness ==
    /\ req.route = "me"
    /\ req.pc = "handler"
    /\ HasBearerToken(req)
    /\ BearerTokenOf(req) \in preLogout
    /\ req.user._id = BearerTokenOf(req).id

\* this step is authLogin serving a request
LoginStep == req = Idle /\ req'.route = "login"

\* C10: authLogin with email and password given answers 200 with one token,
\* in the 'token' cookie and in the body, when the password matches the
\* stored user; when no user has the email or the password is wrong it calls
\* next with 401 'Bad credentials.', sets no cookie and returns no token.
C10_LoginOnlyWithCredentials ==
    [][(LoginStep /\ req'.body.email # <<>> /\ req'.body.password # <<>>)
       => LET known == \E id \in DOMAIN users :
                           /\ users[id].email = req'.body.email
                           /\ users[id].password = Hash(req'.body.password)
          IN /\ known =>
                    /\ req'.res.statusCode = 200
                    /\ req'.res.cookie.name = "token"
                    /\ Len(req'.res.token) = 1
                    /\ req'.res.cookie.value = req'.res.token
                    /\ req'.nexts = <<>>
             /\ ~known =>
                    /\ req'.nexts = <<ErrorResponse("Bad credentials.", 401)>>
                    /\ req'.res = NoResponse
                    /\ issued' = issued]_vars

C10_Witness ==
    /\ req.route = "login"
    /\ req.body.email # <<>>
    /\ req.body.password # <<>>
    /\ req.res.statusCode = 200
    /\ Len(req.res.token) = 1
    /\ req.res.cookie.value = req.res.token

\* the header value begins with the word Bearer, one space and a non-empty
\* token (whatever may follow the token)
IsBearerForm(h) ==
    /\ Len(h) >= 3
    /\ h[1] = Bearer
    /\ h[2] = Space
    /\ h[3] # Space

\* C11: a request whose Authorization header is not 'Bearer <token>' (another
\* scheme that begins with Bearer, Bearer with no token, ...) is treated as
\* one with no credential: protect rejects it with the 401 of the missing
\* token, attaches no user and resolves no token.
C11_OnlyBearerFormYieldsToken ==
    (/\ req.route = "me"
     /\ req.pc # "protect"
     /\ "authorization" \in DOMAIN req.headers
     /\ ~IsBearerForm(req.headers.authorization))
    => /\ req.nexts = <<Unauthorized>>
       /\ req.user = NoUser
       /\ req.lookup = "none"
       /\ req.pc = "error"

====
